---- MODULE Spec2Model ----
(***************************************************************************)
(* Model of the download queue of src/main.py: the AdvancedDownloader      *)
(* window (jobs list, status column of the table, pending queue, active    *)
(* worker map, concurrency setting), the DownloadWorker threads, the Qt    *)
(* queued-signal event queue that carries worker signals to the GUI        *)
(* thread, and the periodic re-check thread of start_check_timer.          *)
(*                                                                         *)
(* Python's 0-based list and row indices are written 1-based here.         *)
(*                                                                         *)
(* Threads: a GUI handler runs alone in the GUI thread, but _fill_workers  *)
(* is also called from the re-check thread, without a lock; so each pass   *)
(* is two kinds of step per context (the while test, then the loop body)   *)
(* and the two contexts interleave between them.  Worker signals reach the *)
(* GUI thread as queued calls, handled one at a time in emission order.    *)
(* The engine (yt-dlp) is free to call the hook with any record, to return *)
(* or to raise.                                                            *)
(*                                                                         *)
(* A worker record holds the thread's job, index and _stop_requested flag, *)
(* its position pc (init, download, done), and for reference the number of *)
(* hook calls, of terminal status events and of finished events it made,   *)
(* and how its run ended (success, stopped, aborted by the hook, failed).  *)
(***************************************************************************)
EXTENDS Naturals, Integers, Sequences, FiniteSets, TLC

\* ---------------------------------------------------------------- bounds
\* Three combinations of bounds are explored (the variable lim holds the one
\* a behaviour runs under).  Each bounds the jobs ever added to the jobs
\* list, the pending-queue entries ever made by start_queue (each becomes one
\* worker), and the progress-hook invocations the engine makes during one
\* download.
\* Scheduling: many jobs, an engine that reports no progress.
SchedJobs == 3
SchedRuns == 3
SchedHooks == 0
\* One job run twice, with a talkative engine.
WorkJobs == 1
WorkRuns == 2
WorkHooks == 2
\* Two jobs and one progress record each.
MixJobs == 2
MixRuns == 2
MixHooks == 1
\* Largest value of the "Concurrent downloads" spin box that is explored.
MaxConc == 2
\* Signal emissions that may wait for the GUI thread at one time.
MaxEvents == 3

Profiles ==
    {[jobs |-> SchedJobs, runs |-> SchedRuns, hooks |-> SchedHooks],
     [jobs |-> WorkJobs, runs |-> WorkRuns, hooks |-> WorkHooks],
     [jobs |-> MixJobs, runs |-> MixRuns, hooks |-> MixHooks]}

\* '_percent_str' values the engine hands to the hook, as character sequences:
\* " 45.5%" and "N/A".
RawPercents == {<<" ", "4", "5", ".", "5", "%">>, <<"N", "/", "A">>}

\* 'status' tags of the engine's progress records.
HookTags == {"downloading", "finished", "error"}

VARIABLES
    jobs,            \* self.jobs: sequence of job objects (their identities)
    jobObj,          \* the DownloadJob objects: status, progress, index_in_table
    table,           \* column 5 (status text) of the table rows
    queue,           \* self.queue: pending (index, job) tuples, FIFO
    active_workers,  \* self.active_workers: index -> worker
    workers,         \* the DownloadWorker threads ever created
    events,          \* queued signal emissions waiting for the GUI thread
    concurrent,      \* self.settings['concurrent']
    spin,            \* self.concurrent_spin.value()
    pc,              \* position of the GUI thread and of the re-check thread
    handler,         \* the latest GUI handler that ran an admission pass or
                     \* changed the settings
    lim              \* the bounds this behaviour is explored under

vars == <<jobs, jobObj, table, queue, active_workers, workers, events,
          concurrent, spin, pc, handler, lim>>

\* ------------------------------------------------------------- helpers
Range(f) == {f[x] : x \in DOMAIN f}

\* Sequence s with its n-th element replaced, when n is a position of s.
SetAt(s, n, v) == IF n \in 1..Len(s) THEN [s EXCEPT ![n] = v] ELSE s

\* self.jobs[index] if 0 <= index < len(self.jobs) else None  (0 is None)
JobAt(index) == IF index \in 1..Len(jobs) THEN jobs[index] ELSE 0

\* The characters of s that are not in drop, in order: str.replace(c, '') for
\* every c of drop.
RECURSIVE Without(_, _)
Without(s, drop) ==
    IF s = <<>> THEN <<>>
    ELSE IF Head(s) \in drop THEN Without(Tail(s), drop)
         ELSE <<Head(s)>> \o Without(Tail(s), drop)

\* str.strip() for blanks.
RECURSIVE Strip(_)
Strip(s) ==
    IF s = <<>> THEN s
    ELSE IF Head(s) = " " THEN Strip(Tail(s))
    ELSE IF s[Len(s)] = " " THEN Strip(SubSeq(s, 1, Len(s) - 1))
    ELSE s

Digits == <<"0", "1", "2", "3", "4", "5", "6", "7", "8", "9">>
DigitChars == Range(Digits)
DigitValue(c) == (CHOOSE k \in DOMAIN Digits : Digits[k] = c) - 1

\* The number a sequence of digit characters denotes.
RECURSIVE Decimal(_)
Decimal(s) ==
    IF s = <<>> THEN 0
    ELSE 10 * Decimal(SubSeq(s, 1, Len(s) - 1)) + DigitValue(s[Len(s)])

\* p is an unsigned decimal literal that float() accepts: digits with at most
\* one point and at least one digit.
IsFloat(p) ==
    /\ \A k \in DOMAIN p : p[k] \in DigitChars \cup {"."}
    /\ Cardinality({k \in DOMAIN p : p[k] = "."}) <= 1
    /\ \E k \in DOMAIN p : p[k] \in DigitChars

\* The digits of p before its point.
RECURSIVE IntPart(_)
IntPart(p) ==
    IF p = <<>> \/ Head(p) = "." THEN <<>>
    ELSE <<Head(p)>> \o IntPart(Tail(p))

\* _hook, lines 155-159: p = raw.strip().replace('%', ''), int(float(p)), and 0
\* when float() raises.
ParsePercent(raw) ==
    LET p == Without(Strip(raw), {"%"})
    IN IF IsFloat(p) THEN Decimal(IntPart(p)) ELSE 0

\* signals.<sig>.emit(index, arg) from worker w: a queued call for the GUI.
Emit(w, sig, arg) == [sig |-> sig, index |-> workers[w].index, arg |-> arg, src |-> w]

\* ---------------------------------------------------------------- Init
Init ==
    /\ jobs = <<>>
    /\ jobObj = <<>>
    /\ table = <<>>
    /\ queue = <<>>
    /\ active_workers = <<>>
    /\ workers = <<>>
    /\ events = <<>>
    /\ spin \in 1..MaxConc
    /\ concurrent = spin
    /\ pc = [gui |-> "idle", timer |-> "idle"]
    /\ handler = "none"
    /\ lim \in Profiles

\* --------------------------------------------- adding jobs (fetch thread)
\* _fetch_info_thread, lines 459-477, for one entry: a new DownloadJob
\* (status "Queued", progress 0) is appended to self.jobs and
\* add_job_to_table gives it the next table row.
AddJob ==
    /\ Len(jobObj) < lim.jobs
    /\ LET row == Len(table) + 1
           id  == Len(jobObj) + 1
       IN /\ jobObj' = Append(jobObj, [status |-> "Queued", progress |-> 0,
                                       index_in_table |-> row])
          /\ jobs' = Append(jobs, id)
          /\ table' = Append(table, "Queued")
    /\ UNCHANGED <<queue, active_workers, workers, events, concurrent, spin,
                   pc, handler, lim>>

\* ------------------------------------------------------------ start_queue
\* job.status in ("Queued", "Stopped", "Error")
Requeueable(st) == st \in {"Queued", "Stopped", "Error"}

\* The (index, job) tuples start_queue puts, in the order of enumerate(self.jobs).
RECURSIVE EnqueueFrom(_)
EnqueueFrom(i) ==
    IF i > Len(jobs) THEN <<>>
    ELSE IF Requeueable(jobObj[jobs[i]].status)
         THEN <<[index |-> i, job |-> jobs[i]]>> \o EnqueueFrom(i + 1)
         ELSE EnqueueFrom(i + 1)

\* start_queue up to the call of _fill_workers: the spin box value becomes the
\* concurrency setting, every requeueable job is set to "Queued" and put.
StartQueue ==
    /\ pc.gui = "idle"
    /\ LET put == EnqueueFrom(1)
       IN /\ Len(workers) + Len(queue) + Len(put) <= lim.runs
          /\ queue' = queue \o put
          /\ jobObj' = [j \in DOMAIN jobObj |->
                          IF \E k \in DOMAIN put : put[k].job = j
                          THEN [jobObj[j] EXCEPT !.status = "Queued"]
                          ELSE jobObj[j]]
    /\ concurrent' = spin
    /\ pc' = [pc EXCEPT !.gui = "check"]
    /\ handler' = "start_queue"
    /\ UNCHANGED <<jobs, table, active_workers, workers, events, spin, lim>>

\* ---------------------------------------------------------- _fill_workers
\* The while condition with the limit off by one.
FillCondOffByOne ==
    /\ Cardinality(DOMAIN active_workers) < concurrent - 1
    /\ queue # <<>>

\* The while condition of _fill_workers.
FillCond ==
    /\ Cardinality(DOMAIN active_workers) < concurrent
    /\ queue # <<>>

\* Context c (the GUI thread or the re-check thread) evaluates the while
\* condition: it goes on to queue.get() or leaves _fill_workers.
FillCheck(c) ==
    /\ pc[c] = "check"
    /\ pc' = [pc EXCEPT ![c] = IF FillCond THEN "get" ELSE "idle"]
    /\ UNCHANGED <<jobs, jobObj, table, queue, active_workers, workers, events,
                   concurrent, spin, handler, lim>>

\* The loop body: queue.get() (which waits while the queue is empty), a new
\* DownloadWorker registered under idx, job.status and the table row set to
\* "Starting", worker.start().
FillGet(c) ==
    /\ pc[c] = "get"
    /\ queue # <<>>
    /\ LET idx == Head(queue).index
           job == Head(queue).job
           w   == Len(workers) + 1
       IN /\ workers' = Append(workers,
                           [job |-> job, index |-> idx, stop |-> FALSE,
                            pc |-> "init", hooks |-> 0, nterm |-> 0,
                            nfin |-> 0, outcome |-> "none"])
          /\ active_workers' = [i \in DOMAIN active_workers \cup {idx} |->
                                  IF i = idx THEN w ELSE active_workers[i]]
          /\ jobObj' = [jobObj EXCEPT ![job].status = "Starting"]
          /\ table' = SetAt(table, jobObj[job].index_in_table, "Starting")
    /\ queue' = Tail(queue)
    /\ pc' = [pc EXCEPT ![c] = "check"]
    /\ UNCHANGED <<jobs, events, concurrent, spin, handler, lim>>

\* One round of the loop of start_check_timer after its sleep: the pass is
\* entered only when the queue is not empty.
TimerTick ==
    /\ pc.timer = "idle"
    /\ queue # <<>>
    /\ pc' = [pc EXCEPT !.timer = "check"]
    /\ UNCHANGED <<jobs, jobObj, table, queue, active_workers, workers, events,
                   concurrent, spin, handler, lim>>

\* ---------------------------------------------------------------- stop_all
\* A stop_all that also drops the pending entries.
StopAllAndDrain ==
    /\ pc.gui = "idle"
    /\ workers' = [w \in DOMAIN workers |->
                     IF w \in Range(active_workers)
                     THEN [workers[w] EXCEPT !.stop = TRUE]
                     ELSE workers[w]]
    /\ queue' = <<>>
    /\ UNCHANGED <<jobs, jobObj, table, active_workers, events,
                   concurrent, spin, pc, handler, lim>>

\* worker.stop() on every worker of the active map; nothing is waited for.
StopAll ==
    /\ pc.gui = "idle"
    /\ workers' = [w \in DOMAIN workers |->
                     IF w \in Range(active_workers)
                     THEN [workers[w] EXCEPT !.stop = TRUE]
                     ELSE workers[w]]
    /\ UNCHANGED <<jobs, jobObj, table, queue, active_workers, events,
                   concurrent, spin, pc, handler, lim>>

\* ------------------------------------------------- DownloadWorker threads
\* Statuses with which run() ends a download.
RunTerminal(st) == st \in {"Complete", "Stopped", "Error: Stopped by user",
                           "Error: engine failure"}

\* The events of the except branch of run(): status "Error: <str(e)>" and
\* finished(False).
ExceptEvents(w, msg) ==
    <<Emit(w, "status", "Error: " \o msg), Emit(w, "finished", FALSE)>>

\* The events run() emits after ydl.download returned without raising.
ReturnEvents(w) ==
    IF ~workers[w].stop
    THEN <<Emit(w, "progress", 100), Emit(w, "status", "Complete"),
           Emit(w, "finished", TRUE)>>
    ELSE <<Emit(w, "status", "Stopped"), Emit(w, "finished", FALSE)>>

\* The events _hook emits for a progress record d when no stop is requested.
HookEvents(w, d) ==
    IF d.status = "downloading"
    THEN <<Emit(w, "progress", ParsePercent(d.percent)),
           Emit(w, "status", "Downloading")>>
    ELSE IF d.status = "finished"
    THEN <<Emit(w, "status", "Merging / finalizing")>>
    ELSE <<Emit(w, "status", "Error")>>

\* Terminal status events among a sequence of events.
NTerminal(evs) ==
    Cardinality({k \in DOMAIN evs :
                   /\ evs[k].sig = "status"
                   /\ evs[k].arg \in {"Complete", "Stopped", "Error",
                                      "Error: Stopped by user",
                                      "Error: engine failure"}})

\* Worker w publishes evs and its record becomes rec, with the counts of the
\* terminal status events and finished events it has published kept up.
Publish(w, evs, rec) ==
    /\ Len(events) + Len(evs) <= MaxEvents
    /\ events' = events \o evs
    /\ workers' = [workers EXCEPT ![w] =
                     [rec EXCEPT !.nterm = @ + NTerminal(evs),
                                 !.nfin = @ + Cardinality({k \in DOMAIN evs :
                                                 evs[k].sig = "finished"})]]
    /\ UNCHANGED <<jobs, jobObj, table, queue, active_workers, concurrent,
                   spin, pc, handler, lim>>

\* run(), line 75: the thread starts and emits status "Starting"; it then
\* enters ydl.download.
WorkerBegin(w) ==
    /\ workers[w].pc = "init"
    /\ Publish(w, <<Emit(w, "status", "Starting")>>,
               [workers[w] EXCEPT !.pc = "download"])

\* The engine calls _hook with record d. With a stop requested the hook raises
\* DownloadError("Stopped by user"), which ydl.download propagates to run()'s
\* except branch.
WorkerHook(w, d) ==
    /\ workers[w].pc = "download"
    /\ workers[w].hooks < lim.hooks
    /\ IF workers[w].stop
       THEN Publish(w, ExceptEvents(w, "Stopped by user"),
                    [workers[w] EXCEPT !.pc = "done", !.outcome = "aborted",
                                       !.hooks = @ + 1])
       ELSE Publish(w, HookEvents(w, d),
                    [workers[w] EXCEPT !.hooks = @ + 1])

\* ydl.download returns: lines 136-142.
WorkerReturn(w) ==
    /\ workers[w].pc = "download"
    /\ Publish(w, ReturnEvents(w),
               [workers[w] EXCEPT !.pc = "done",
                  !.outcome = IF workers[w].stop THEN "stopped" ELSE "success"])

\* ydl.download raises a failure of its own: lines 143-146.
WorkerRaise(w) ==
    /\ workers[w].pc = "download"
    /\ Publish(w, ExceptEvents(w, "engine failure"),
               [workers[w] EXCEPT !.pc = "done", !.outcome = "failed"])

\* --------------------------------------------- GUI thread: signal handlers
\* on_progress for the oldest queued emission.
OnProgress ==
    /\ pc.gui = "idle"
    /\ events # <<>>
    /\ Head(events).sig = "progress"
    /\ LET e == Head(events)
           job == JobAt(e.index)
       IN IF job = 0
          THEN UNCHANGED jobObj
          ELSE jobObj' = [jobObj EXCEPT ![job].progress = e.arg]
    /\ events' = Tail(events)
    /\ UNCHANGED <<jobs, table, queue, active_workers, workers, concurrent,
                   spin, pc, handler, lim>>

\* on_status for the oldest queued emission.
OnStatus ==
    /\ pc.gui = "idle"
    /\ events # <<>>
    /\ Head(events).sig = "status"
    /\ LET e == Head(events)
           job == JobAt(e.index)
       IN IF job = 0
          THEN UNCHANGED <<jobObj, table>>
          ELSE /\ jobObj' = [jobObj EXCEPT ![job].status = e.arg]
               /\ table' = SetAt(table, jobObj[job].index_in_table, e.arg)
    /\ events' = Tail(events)
    /\ UNCHANGED <<jobs, queue, active_workers, workers, concurrent, spin, pc,
                   handler, lim>>

\* job.status written by on_finished.
FinishedStatus(success) == IF success THEN "Complete" ELSE "Failed/Stopped"

\* on_finished without its "del": the worker stays in the map.
ReleaseNothing(index) == active_workers

\* active_workers after on_finished's "del self.active_workers[index]".
Release(index) ==
    [i \in DOMAIN active_workers \ {index} |-> active_workers[i]]

\* An on_finished that drops the pending entries when the run did not
\* succeed.
OnFinishedDropsPending ==
    /\ pc.gui = "idle"
    /\ events # <<>>
    /\ Head(events).sig = "finished"
    /\ LET e == Head(events)
           job == JobAt(e.index)
       IN /\ active_workers' = Release(e.index)
          /\ queue' = IF e.arg THEN queue ELSE <<>>
          /\ IF job = 0
             THEN UNCHANGED <<jobObj, table>>
             ELSE /\ jobObj' = [jobObj EXCEPT ![job].status = FinishedStatus(e.arg)]
                  /\ table' = SetAt(table, jobObj[job].index_in_table,
                                    FinishedStatus(e.arg))
    /\ events' = Tail(events)
    /\ pc' = [pc EXCEPT !.gui = "check"]
    /\ handler' = "on_finished"
    /\ UNCHANGED <<jobs, workers, concurrent, spin, lim>>

\* on_finished for the oldest queued emission, up to its call of
\* _fill_workers.
OnFinished ==
    /\ pc.gui = "idle"
    /\ events # <<>>
    /\ Head(events).sig = "finished"
    /\ LET e == Head(events)
           job == JobAt(e.index)
       IN /\ active_workers' = Release(e.index)
          /\ IF job = 0
             THEN UNCHANGED <<jobObj, table>>
             ELSE /\ jobObj' = [jobObj EXCEPT ![job].status = FinishedStatus(e.arg)]
                  /\ table' = SetAt(table, jobObj[job].index_in_table,
                                    FinishedStatus(e.arg))
    /\ events' = Tail(events)
    /\ pc' = [pc EXCEPT !.gui = "check"]
    /\ handler' = "on_finished"
    /\ UNCHANGED <<jobs, queue, workers, concurrent, spin, lim>>

\* --------------------------------------------------------- specification
Next ==
    \/ AddJob
    \/ StartQueue
    \/ StopAll
    \/ \E c \in {"gui", "timer"} : FillCheck(c)
    \/ \E c \in {"gui", "timer"} : FillGet(c)
    \/ TimerTick
    \/ \E w \in DOMAIN workers : WorkerBegin(w)
    \/ \E w \in DOMAIN workers : \E t \in HookTags : \E p \in RawPercents :
           WorkerHook(w, [status |-> t, percent |-> p])
    \/ \E w \in DOMAIN workers : WorkerReturn(w)
    \/ \E w \in DOMAIN workers : WorkerRaise(w)
    \/ OnProgress
    \/ OnStatus
    \/ OnFinished

Spec == Init /\ [][Next]_vars

\* ------------------------------------------------------ state functions
\* The finished signal of worker w waits for the GUI thread.
FinishedPending(w) ==
    \E k \in DOMAIN events : events[k].src = w /\ events[k].sig = "finished"

\* Worker w was started and its finished event has not been handled yet.
Live(w) == workers[w].pc # "done" \/ FinishedPending(w)

LiveWorkers == {w \in DOMAIN workers : Live(w)}

\* The jobs that have a live worker.
RunningJobs == {workers[w].job : w \in LiveWorkers}

\* ---------------------------------------------------------------- claims

\* C1: the number of jobs that are running (a worker was started for them and
\* its finished event has not been handled) never exceeds the concurrency
\* limit.  The limit is constant in every behaviour of Spec.
C1_AtMostNRunning == Cardinality(RunningJobs) <= concurrent

\* C2: a job never has two workers at once that have not yet published their
\* terminal event.
C2_OneWorkerPerJob ==
    \A w1, w2 \in DOMAIN workers :
        (/\ w1 # w2
         /\ workers[w1].job = workers[w2].job
         /\ workers[w1].pc # "done")
        => workers[w2].pc = "done"

\* on_finished has returned and nothing has been started by hand since.
AfterOnFinished == pc.gui = "idle" /\ handler = "on_finished"

\* No pending job could be admitted: the queue is empty or the active map is
\* full.
NothingAdmissible ==
    queue = <<>> \/ Cardinality(DOMAIN active_workers) >= concurrent

\* The GUI thread, in the admission pass of on_finished, takes this step.
OnFinishedPassChecks ==
    pc.gui = "check" /\ handler = "on_finished" /\ pc'.gui # "check"
OnFinishedPassGets ==
    pc.gui = "get" /\ handler = "on_finished" /\ pc'.gui # "get"

IsError(st) == st \in {"Error", "Error: Stopped by user", "Error: engine failure"}

\* C4: the terminal status published for a job that was Downloading when its
\* worker's hook aborted the download on a stop request is "Stopped".
C4_StopGivesStopped ==
    \A k \in DOMAIN events :
        (/\ events[k].sig = "status"
         /\ RunTerminal(events[k].arg)
         /\ workers[events[k].src].outcome = "aborted"
         /\ jobObj[workers[events[k].src].job].status = "Downloading")
        => events[k].arg = "Stopped"

\* Worker w ended with a failure of the engine and its finished event has
\* been handled.
FailedAndRetired(w) == workers[w].outcome = "failed" /\ ~Live(w)

\* The GUI thread handles the terminal status of a worker whose download
\* failed.
HandlesFailureStatus ==
    /\ events # <<>>
    /\ events' = Tail(events)
    /\ Head(events).sig = "status"
    /\ Head(events).arg = "Error: engine failure"

\* Some worker's stop flag is raised in this step (stop_all ran).
RaisesStopFlag ==
    \E w \in DOMAIN workers : workers'[w].stop /\ ~workers[w].stop

StateOf(st) ==
    IF IsError(st) THEN "Error"
    ELSE IF st = "Merging / finalizing" THEN "Merging"
    ELSE IF st = "Failed/Stopped" THEN "Stopped/Error"
    ELSE st

\* The transitions of the job state machine: Queued -> Starting ->
\* Downloading -> [Merging] -> Complete, where a download without progress
\* records leaves Starting directly; Stopped and Error from a running state; a
\* stopped or failed job back to Queued.
ValidStep(a, b) ==
    \/ a = b
    \/ a = "Queued" /\ b = "Starting"
    \/ a = "Starting" /\ b \in {"Downloading", "Merging", "Complete"}
    \/ a = "Downloading" /\ b \in {"Merging", "Complete"}
    \/ a = "Merging" /\ b = "Complete"
    \/ a \in {"Starting", "Downloading", "Merging"} /\ b \in {"Stopped", "Error"}
    \/ a \in {"Stopped", "Error"} /\ b = "Stopped/Error"
    \/ a \in {"Stopped", "Error", "Stopped/Error"} /\ b = "Queued"

\* C6: every change of a job's status is a transition of the job state
\* machine.
C6_ValidStatusPath ==
    [][\A j \in DOMAIN jobObj :
         ValidStep(StateOf(jobObj[j].status), StateOf(jobObj'[j].status))]_vars

\* The workers that were created for job j, and the latest of them.
WorkersOf(j) == {w \in DOMAIN workers : workers[w].job = j}
LastWorkerOf(j) == CHOOSE w \in WorkersOf(j) : \A v \in WorkersOf(j) : v <= w

\* Job j is not pending, its latest run ended Stopped or in an error, and the
\* finished events of all its workers have been handled.
EndedStoppedOrError(j) ==
    /\ WorkersOf(j) # {}
    /\ \A w \in WorkersOf(j) : ~Live(w)
    /\ workers[LastWorkerOf(j)].outcome \in {"stopped", "aborted", "failed"}
    /\ \A k \in DOMAIN queue : queue[k].job # j

\* The GUI thread runs start_queue up to its admission pass in this step.
StartQueueStep ==
    pc.gui = "idle" /\ pc'.gui = "check" /\ handler' = "start_queue"
    /\ events' = events

\* C7: a start_queue call made after a job's run ended Stopped or in an error
\* puts the job back into the pending queue with the status "Queued".
C7_RequeueAfterFailure ==
    [][StartQueueStep =>
         \A j \in DOMAIN jobObj :
             (j \in Range(jobs) /\ EndedStoppedOrError(j)) =>
                 /\ \E k \in DOMAIN queue' : queue'[k].job = j
                 /\ jobObj'[j].status = "Queued"]_vars

\* C8: no admission pass gives a new worker to a job that is recorded as
\* Complete.  start_queue never enqueues such a job, so the entry admitted
\* would have been made before the job completed, and no start_queue call has
\* asked for that run since.
C8_NoRunAfterComplete ==
    [][Len(workers') > Len(workers) =>
         jobObj[workers'[Len(workers')].job].status # "Complete"]_vars

\* C9: a worker never publishes more than one terminal status event or more
\* than one finished event, and has published exactly one of each when its
\* run has ended.
C9_OneTerminalEvent ==
    \A w \in DOMAIN workers :
        /\ workers[w].nterm <= 1
        /\ workers[w].nfin <= 1
        /\ workers[w].pc = "done" => workers[w].nterm = 1 /\ workers[w].nfin = 1

\* Worker w publishes a progress or status event in this step.
PublishesUpdate(w) ==
    \E k \in DOMAIN events' :
        /\ k > Len(events)
        /\ Len(events') > Len(events)
        /\ events'[k].src = w
        /\ events'[k].sig \in {"progress", "status"}

\* C10: a worker that has published a terminal status event publishes no
\* further progress or status event.
C10_SilentAfterTerminal ==
    [][\A w \in DOMAIN workers :
         workers[w].nterm >= 1 => ~PublishesUpdate(w)]_vars

\* ------------------------------------ _fill_workers, one statement at a time
\* The loop body of _fill_workers is several statements, and the GUI thread
\* and the re-check thread may be switched between any two of them.  Here the
\* body is two steps: lines 568-573 (queue.get(), the DownloadWorker is
\* constructed and registered, the status is set) and line 574
\* (worker.start()).  A worker that is constructed and not started has pc
\* "new" and remembers in the field by the context that holds it.
FillPop(c) ==
    /\ pc[c] = "get"
    /\ queue # <<>>
    /\ LET idx == Head(queue).index
           job == Head(queue).job
           w   == Len(workers) + 1
       IN /\ workers' = Append(workers,
                           [job |-> job, index |-> idx, stop |-> FALSE,
                            pc |-> "new", hooks |-> 0, nterm |-> 0,
                            nfin |-> 0, outcome |-> "none", by |-> c])
          /\ active_workers' = [i \in DOMAIN active_workers \cup {idx} |->
                                  IF i = idx THEN w ELSE active_workers[i]]
          /\ jobObj' = [jobObj EXCEPT ![job].status = "Starting"]
          /\ table' = SetAt(table, jobObj[job].index_in_table, "Starting")
    /\ queue' = Tail(queue)
    /\ pc' = [pc EXCEPT ![c] = "start"]
    /\ UNCHANGED <<jobs, events, concurrent, spin, handler, lim>>

\* The worker that context c has constructed and not yet started.
Held(c) == {w \in DOMAIN workers : workers[w].pc = "new" /\ workers[w].by = c}

\* worker.start(), line 574: the thread exists from now on.
FillStart(c) ==
    /\ pc[c] = "start"
    /\ \E w \in Held(c) :
         workers' = [workers EXCEPT ![w] =
                       [job |-> @.job, index |-> @.index, stop |-> @.stop,
                        pc |-> "init", hooks |-> 0, nterm |-> 0, nfin |-> 0,
                        outcome |-> "none"]]
    /\ pc' = [pc EXCEPT ![c] = "check"]
    /\ UNCHANGED <<jobs, jobObj, table, queue, active_workers, events,
                   concurrent, spin, handler, lim>>

\* The window with an engine that reports no progress, as in Init.
InitOrder ==
    /\ Init
    /\ lim = [jobs |-> SchedJobs, runs |-> SchedRuns, hooks |-> SchedHooks]

NextOrder ==
    \/ AddJob
    \/ StartQueue
    \/ StopAll
    \/ \E c \in {"gui", "timer"} : FillCheck(c)
    \/ \E c \in {"gui", "timer"} : FillPop(c)
    \/ \E c \in {"gui", "timer"} : FillStart(c)
    \/ TimerTick
    \/ \E w \in DOMAIN workers : WorkerBegin(w)
    \/ \E w \in DOMAIN workers : WorkerReturn(w)
    \/ \E w \in DOMAIN workers : WorkerRaise(w)
    \/ OnProgress
    \/ OnStatus
    \/ OnFinished

SpecOrder == InitOrder /\ [][NextOrder]_vars

\* C11: jobs are started in the order of the pending queue.  The queue is
\* first-in first-out and workers are numbered in the order their entries were
\* taken from it, so a worker that is started has every worker taken before it
\* started as well.
C11_FifoAdmission ==
    \A a, b \in DOMAIN workers :
        (a < b /\ workers[b].pc # "new") => workers[a].pc # "new"

\* C12: while a job is recorded as "Downloading", the progress recorded for
\* it (job.progress, the value the progress cell shows) never goes down.
C12_ProgressMonotone ==
    [][\A j \in DOMAIN jobObj :
          (jobObj[j].status = "Downloading" /\ jobObj'[j].status = "Downloading")
              => jobObj'[j].progress >= jobObj[j].progress]_vars

\* float() rejects the '_percent_str' raw (stripped, without its percent sign).
NonNumeric(raw) == ~IsFloat(Without(Strip(raw), {"%"}))

\* Worker w, with no stop requested, handles a "downloading" record whose
\* '_percent_str' is raw.
HookDownloading(w, raw) ==
    /\ ~workers[w].stop
    /\ WorkerHook(w, [status |-> "downloading", percent |-> raw])

\* C13: the percent of the progress event the hook publishes for a record lies
\* in 0..100, and for a record whose percent is not a number it is the last
\* percent known for the job (job.progress).
C13_HookPercent ==
    [][\A w \in DOMAIN workers : \A raw \in RawPercents :
          HookDownloading(w, raw) =>
              LET e == events'[Len(events) + 1]
              IN /\ e.sig = "progress"
                 /\ e.arg \in 0..100
                 /\ NonNumeric(raw) => e.arg = jobObj[workers[w].job].progress]_vars

\* ------------------------------------------- changing the concurrency limit
\* The user edits the "Concurrent downloads" spin box of the main window
\* (range 1..8, lines 359-361).  Nothing is connected to the spin box; its
\* value is read by start_queue.
SetSpin(n) ==
    /\ pc.gui = "idle"
    /\ n # spin
    /\ spin' = n
    /\ UNCHANGED <<jobs, jobObj, table, queue, active_workers, workers, events,
                   concurrent, pc, handler, lim>>

\* open_settings with a dialog that also requests a stop of every active
\* worker.
OpenSettingsStopping(n) ==
    /\ pc.gui = "idle"
    /\ concurrent' = n
    /\ spin' = n
    /\ handler' = "open_settings"
    /\ workers' = [w \in DOMAIN workers |->
                     IF w \in Range(active_workers)
                     THEN [workers[w] EXCEPT !.stop = TRUE]
                     ELSE workers[w]]
    /\ UNCHANGED <<jobs, jobObj, table, queue, active_workers, events, pc, lim>>

\* open_settings with the dialog accepted and n in its "Concurrent downloads"
\* box: SettingsDialog.accept stores n, settings.update copies it to
\* settings['concurrent'], and the main window's spin box is set to it.
OpenSettings(n) ==
    /\ pc.gui = "idle"
    /\ concurrent' = n
    /\ spin' = n
    /\ handler' = "open_settings"
    /\ UNCHANGED <<jobs, jobObj, table, queue, active_workers, workers, events,
                   pc, lim>>

\* The window with the default setting in the spin box.
InitSettings ==
    /\ Init
    /\ spin = MaxConc
    /\ lim = [jobs |-> MixJobs, runs |-> MixRuns, hooks |-> MixHooks]

NextSettings ==
    \/ Next
    \/ \E n \in 1..MaxConc : SetSpin(n)
    \/ \E n \in 1..MaxConc : OpenSettings(n)

SpecSettings == InitSettings /\ [][NextSettings]_vars

\* s is an initial segment of t.
IsPrefix(s, t) == Len(s) <= Len(t) /\ SubSeq(t, 1, Len(s)) = s

\* C14: a step that changes the concurrency setting or the spin box leaves
\* every worker (its stop flag, its position), the active map and the queued
\* worker signals as they are, and takes nothing from the pending queue: the
\* settings dialog and the spin box leave the queue unchanged, start_queue only
\* appends its own entries.  start_queue makes the spin box value the setting,
\* and every test of an admission pass that goes on to take a job found fewer
\* active workers than the setting of that moment.
C14_ConcurrencyChangeFrame ==
    /\ [][(concurrent' # concurrent \/ spin' # spin) =>
            /\ UNCHANGED <<workers, active_workers, events>>
            /\ IsPrefix(queue, queue')
            /\ (queue' # queue => StartQueue)]_vars
    /\ [][StartQueue => concurrent' = spin]_vars
    /\ [][\A c \in {"gui", "timer"} :
            (pc[c] = "check" /\ pc'[c] = "get") =>
                Cardinality(DOMAIN active_workers) < concurrent]_vars

\* After the settings dialog lowered the limit, more workers than the limit
\* are active and downloading with no stop requested.
C14_Witness ==
    /\ handler = "open_settings"
    /\ concurrent < MaxConc
    /\ Cardinality(DOMAIN active_workers) > concurrent
    /\ \A w \in Range(active_workers) :
          workers[w].pc = "download" /\ ~workers[w].stop

\* ---------------------------------------------------------- clear_completed
\* status.lower().startswith("complete") or ...("error") or ...("stopped"),
\* for the status texts the program writes ("Failed/Stopped" starts with none
\* of the three).
Clearable(st) == st \in {"Complete", "Stopped", "Error",
                         "Error: Stopped by user", "Error: engine failure"}

\* rows_to_remove
RowsToRemove == {r \in DOMAIN table : Clearable(table[r])}

\* The rows of t up to row n that are not in rows, in order: what
\* table.removeRow leaves.
RECURSIVE KeepRows(_, _, _)
KeepRows(t, n, rows) ==
    IF n = 0 THEN <<>>
    ELSE IF n \in rows THEN KeepRows(t, n - 1, rows)
         ELSE Append(KeepRows(t, n - 1, rows), t[n])

\* clear_completed: every row with a clearable status is removed, from the
\* last to the first, and with row r every job with index_in_table = r leaves
\* self.jobs.  No index_in_table is changed, so the jobs that leave are those
\* whose index_in_table is one of the removed rows.
ClearCompleted ==
    /\ pc.gui = "idle"
    /\ table' = KeepRows(table, Len(table), RowsToRemove)
    /\ jobs' = SelectSeq(jobs, LAMBDA j :
                                 jobObj[j].index_in_table \notin RowsToRemove)
    /\ UNCHANGED <<jobObj, queue, active_workers, workers, events, concurrent,
                   spin, pc, handler, lim>>

\* The window with an engine that reports at most one record per download.
InitTable ==
    /\ Init
    /\ lim = [jobs |-> MixJobs, runs |-> MixRuns, hooks |-> MixHooks]

NextTable ==
    \/ Next
    \/ ClearCompleted

SpecTable == InitTable /\ [][NextTable]_vars

\* C15: for every job of self.jobs, the index carried by a pending queue entry
\* made for it, or by a worker made for it whose finished event has not been
\* handled, is the job's position in self.jobs; and no two jobs of self.jobs
\* have the same index_in_table.
C15_StableIdentity ==
    /\ \A k \in DOMAIN queue :
          queue[k].job \in Range(jobs) => JobAt(queue[k].index) = queue[k].job
    /\ \A w \in LiveWorkers :
          workers[w].job \in Range(jobs) => JobAt(workers[w].index) = workers[w].job
    /\ \A i, k \in DOMAIN jobs :
          i # k => jobObj[jobs[i]].index_in_table # jobObj[jobs[k]].index_in_table

\* Job j is owned by a worker: a worker made for it is in the active map, or
\* the finished event of a worker made for it has not been handled.
Owned(j) ==
    \/ \E i \in DOMAIN active_workers : workers[active_workers[i]].job = j
    \/ \E w \in LiveWorkers : workers[w].job = j

\* C16: no step removes from self.jobs a job that is owned by a worker
\* (clear_completed is the only operation that removes jobs).
C16_RemoveOnlyUnowned ==
    [][\A j \in Range(jobs) \ Range(jobs') : ~Owned(j)]_vars

\* A step in which the stop flag of some worker changes: only stop_all makes
\* one.
StopFlagChanges == \E w \in DOMAIN workers : workers'[w].stop # workers[w].stop

\* C17: a stop_all step leaves every worker of the active map with its stop
\* flag set and otherwise as it was (no worker has moved: nothing was waited
\* for), leaves every other worker as it was, and leaves the pending queue, the
\* active map, the jobs, their recorded state, the table, the queued worker
\* signals and the position of both threads unchanged.
C17_StopAllFrame ==
    [][StopFlagChanges =>
         /\ DOMAIN workers' = DOMAIN workers
         /\ \A w \in Range(active_workers) :
               workers'[w] = [workers[w] EXCEPT !.stop = TRUE]
         /\ \A w \in DOMAIN workers \ Range(active_workers) :
               workers'[w] = workers[w]
         /\ UNCHANGED <<queue, active_workers, jobs, jobObj, table, events,
                        pc>>]_vars

\* A worker of the active map has its stop flag set and is still downloading,
\* and an entry is still pending.
C17_Witness ==
    /\ queue # <<>>
    /\ \E w \in Range(active_workers) :
          workers[w].stop /\ workers[w].pc = "download"

\* ------------------------------------- _fetch_info_thread: a job's formats
\* Longest 'formats' list of an entry that is explored.
MaxFormats == 3

\* Format dictionaries of an entry: two 1080p video formats that differ in
\* 'ext', a 720p one, an audio format (vcodec 'none', no height) and a video
\* format without 'height'.  'ext' is a character sequence; height 0 stands
\* for a missing height.
Formats ==
    {[format_id |-> "137", height |-> 1080, ext |-> <<"m", "p", "4">>,
      vcodec |-> "avc1"],
     [format_id |-> "248", height |-> 1080, ext |-> <<"w", "e", "b", "m">>,
      vcodec |-> "vp9"],
     [format_id |-> "136", height |-> 720, ext |-> <<"m", "p", "4">>,
      vcodec |-> "avc1"],
     [format_id |-> "140", height |-> 0, ext |-> <<"m", "4", "a">>,
      vcodec |-> "none"],
     [format_id |-> "hls", height |-> 0, ext |-> <<"m", "p", "4">>,
      vcodec |-> "avc1"]}

FormatLists == UNION {[1..n -> Formats] : n \in 0..MaxFormats}

\* The characters of the 'ext' values, in code point order.
Alphabet == <<"4", "a", "b", "e", "m", "p", "w">>
CharCode(c) == CHOOSE k \in DOMAIN Alphabet : Alphabet[k] = c

\* s < t for Python strings.
RECURSIVE StrLess(_, _)
StrLess(s, t) ==
    IF t = <<>> THEN FALSE
    ELSE IF s = <<>> THEN TRUE
    ELSE IF Head(s) = Head(t) THEN StrLess(Tail(s), Tail(t))
    ELSE CharCode(Head(s)) < CharCode(Head(t))

\* key(f) < key(g) for the sort key (height or 0, ext or '').
KeyLess(f, g) ==
    \/ f.height < g.height
    \/ f.height = g.height /\ StrLess(f.ext, g.ext)

\* f.get('vcodec') != 'none' and f.get('height')
IsVideo(f) == f.vcodec # "none" /\ f.height # 0

\* x put into s, which is in descending key order, behind every element whose
\* key is not smaller than its own.
RECURSIVE InsertDesc(_, _)
InsertDesc(s, x) ==
    IF s = <<>> THEN <<x>>
    ELSE IF KeyLess(Head(s), x) THEN <<x>> \o s
    ELSE <<Head(s)>> \o InsertDesc(Tail(s), x)

\* sorted(s, key=..., reverse=True): descending keys, elements with equal keys
\* in their order in s.
RECURSIVE SortedReverse(_)
SortedReverse(s) ==
    IF s = <<>> THEN <<>>
    ELSE InsertDesc(SortedReverse(SubSeq(s, 1, Len(s) - 1)), s[Len(s)])

\* The video formats of an entry, in the order of its 'formats' list.
VideoFormatsUnsorted(fmts) == SelectSeq(fmts, IsVideo)

\* video_formats, lines 465-466.
VideoFormats(fmts) == SortedReverse(SelectSeq(fmts, IsVideo))

\* selected_format_id after lines 469-470 ("None" is the dataclass default
\* None).
DefaultFormat(video_formats) ==
    IF video_formats # <<>> THEN video_formats[1].format_id ELSE "None"

\* _fetch_info_thread for one entry whose 'formats' list is fmts: the job gets
\* its formats and its default format, and is appended to self.jobs and to
\* the table.
FetchInfo(fmts) ==
    /\ Len(jobObj) < lim.jobs
    /\ LET row == Len(table) + 1
           id  == Len(jobObj) + 1
           video_formats == VideoFormats(fmts)
       IN /\ jobObj' = Append(jobObj,
                          [status |-> "Queued", progress |-> 0,
                           index_in_table |-> row,
                           formats |-> video_formats,
                           selected_format_id |-> DefaultFormat(video_formats)])
          /\ jobs' = Append(jobs, id)
          /\ table' = Append(table, "Queued")
    /\ UNCHANGED <<queue, active_workers, workers, events, concurrent, spin,
                   pc, handler, lim>>

\* The window with the default setting in the spin box.
InitFetch ==
    /\ Init
    /\ spin = MaxConc
    /\ lim = [jobs |-> MixJobs, runs |-> MixRuns, hooks |-> MixHooks]

NextFetch == \E fmts \in FormatLists : FetchInfo(fmts)

SpecFetch == InitFetch /\ [][NextFetch]_vars

\* C18: the formats of every job are video formats (a video codec and a
\* height) in descending order of height and, for equal heights, in descending
\* order of the extension name; the job's selected format is the first of
\* them, which has the greatest height, and is None when the job has no video
\* format.
C18_FormatsSortedDefaultFirst ==
    \A j \in DOMAIN jobObj :
        LET vf == jobObj[j].formats
        IN /\ \A k \in DOMAIN vf : IsVideo(vf[k])
           /\ \A i, k \in DOMAIN vf :
                 i < k =>
                    \/ vf[i].height > vf[k].height
                    \/ /\ vf[i].height = vf[k].height
                       /\ ~StrLess(vf[i].ext, vf[k].ext)
           /\ IF vf = <<>>
              THEN jobObj[j].selected_format_id = "None"
              ELSE /\ jobObj[j].selected_format_id = vf[1].format_id
                   /\ \A k \in DOMAIN vf : vf[1].height >= vf[k].height

\* One job has two formats of equal height ordered by extension with the
\* first one selected, and another job has no video format and no selected
\* format.
C18_Witness ==
    /\ \E j \in DOMAIN jobObj :
          /\ Len(jobObj[j].formats) >= 2
          /\ jobObj[j].formats[1].height = jobObj[j].formats[2].height
          /\ StrLess(jobObj[j].formats[2].ext, jobObj[j].formats[1].ext)
          /\ jobObj[j].selected_format_id = jobObj[j].formats[1].format_id
    /\ \E j \in DOMAIN jobObj :
          jobObj[j].formats = <<>> /\ jobObj[j].selected_format_id = "None"

\* Context c is inside _fill_workers.
InFill(c) == pc[c] # "idle"

\* C19: the GUI thread and the re-check thread are never inside an admission
\* pass (_fill_workers) at the same time.
C19_FillSerialized == ~(InFill("gui") /\ InFill("timer"))

\* Context c is at queue.get() and the pending queue is empty: the call does
\* not return until something is put.
BlockedOnGet(c) == pc[c] = "get" /\ queue = <<>>

\* C20: no context is ever at queue.get() with the pending queue empty.
C20_NoBlockingGet == \A c \in {"gui", "timer"} : ~BlockedOnGet(c)

\* The terminal status run() published for worker w, whose run has ended:
\* line 138, line 141, or line 145 with the text of the exception.
PublishedTerminal(w) ==
    IF workers[w].outcome = "success" THEN "Complete"
    ELSE IF workers[w].outcome = "stopped" THEN "Stopped"
    ELSE IF workers[w].outcome = "aborted" THEN "Error: Stopped by user"
    ELSE "Error: engine failure"

\* Job j has had a worker, the finished events of all its workers have been
\* handled, and it has not been put into the pending queue again.
Settled(j) ==
    /\ WorkersOf(j) # {}
    /\ \A w \in WorkersOf(j) : ~Live(w)
    /\ \A k \in DOMAIN queue : queue[k].job # j
    /\ jobObj[j].status # "Queued"

\* C21: once the finished event of a job's latest worker has been handled,
\* the status recorded for the job is the terminal status that worker
\* published, as a state of the job state machine: Complete, Stopped or Error.
C21_RecordedEqualsPublished ==
    \A j \in DOMAIN jobObj :
        Settled(j) =>
            StateOf(jobObj[j].status) = StateOf(PublishedTerminal(LastWorkerOf(j)))

\* The GUI thread handles, in this step, the oldest queued emission, and it
\* is one of a worker whose engine call failed.
HandlesEventOfFailed ==
    /\ events # <<>>
    /\ events' = Tail(events)
    /\ workers[Head(events).src].outcome = "failed"

\* C22: handling an event of a worker whose engine call failed leaves the
\* recorded status and progress of every other job and the active-map entry of
\* every other index as they were; handling its finished event takes the
\* worker's index out of the active map and goes on to an admission pass.
C22_FailureIsolated ==
    [][HandlesEventOfFailed =>
         LET e == Head(events)
             w == e.src
         IN /\ \A j \in DOMAIN jobObj :
                  j # workers[w].job => jobObj'[j] = jobObj[j]
            /\ \A i \in DOMAIN active_workers :
                  i # workers[w].index =>
                     /\ i \in DOMAIN active_workers'
                     /\ active_workers'[i] = active_workers[i]
            /\ e.sig = "finished" =>
                  /\ workers[w].index \notin DOMAIN active_workers'
                  /\ pc'.gui = "check"]_vars

\* The positions of the pending queue that hold an entry for job j.
PendingAt(j) == {k \in DOMAIN queue : queue[k].job = j}

\* The jobs that a worker of the active map was made for.
ActiveJobs == {workers[active_workers[i]].job : i \in DOMAIN active_workers}

\* C23: a job has at most one entry in the pending queue, and a job with an
\* entry in the pending queue has no worker in the active map.
C23_QueuedOnceNotActive ==
    \A j \in DOMAIN jobObj :
        /\ Cardinality(PendingAt(j)) <= 1
        /\ PendingAt(j) # {} => j \notin ActiveJobs

\* ----------------------------------------------------- fair scheduling
\* The GUI thread's event loop delivers the oldest queued worker signal to its
\* handler.
GuiDelivers ==
    \/ OnProgress
    \/ OnStatus
    \/ OnFinished

\* A step of the admission pass that a handler of the GUI thread called.
GuiFills ==
    \/ FillCheck("gui")
    \/ FillGet("gui")

\* A step of the thread of start_check_timer.
TimerStep ==
    \/ TimerTick
    \/ FillCheck("timer")
    \/ FillGet("timer")

\* A step by which worker w gets nearer to the end of run(): the thread
\* begins, or ydl.download returns or raises.
WorkerEnds(w) ==
    /\ w \in DOMAIN workers
    /\ (WorkerBegin(w) \/ WorkerReturn(w) \/ WorkerRaise(w))

\* The window with an engine that reports at most one record per download.
InitFair ==
    /\ Init
    /\ lim = [jobs |-> MixJobs, runs |-> MixRuns, hooks |-> MixHooks]

\* Both threads keep running while they can take a step; a queued worker
\* signal is delivered even if the user keeps the GUI thread busy with other
\* handlers (Qt delivers posted events in order); and every worker that can
\* end its run again and again does end it.
Fairness ==
    /\ SF_vars(GuiDelivers)
    /\ WF_vars(GuiFills)
    /\ WF_vars(TimerStep)
    /\ \A w \in 1..MixRuns : SF_vars(WorkerEnds(w))

SpecFair == InitFair /\ [][Next]_vars /\ Fairness

\* C24: under fair scheduling, whenever the pending queue holds an entry it
\* becomes empty later on; an entry leaves the queue only by being given a
\* worker.
C24_PendingEventuallyAdmitted == (queue # <<>>) ~> (queue = <<>>)

\* With concurrency 1, two jobs were enqueued, both have been given a worker,
\* the first worker's finished event has been handled, and nothing is pending.
C24_Witness ==
    /\ concurrent = 1
    /\ Len(workers) = 2
    /\ workers[2].job # workers[1].job
    /\ ~Live(1)
    /\ 2 \in Range(active_workers)
    /\ queue = <<>>

\* A stop has been requested of a worker of the active map while an entry is
\* pending.
StopWhilePending ==
    /\ queue # <<>>
    /\ \E w \in Range(active_workers) : workers[w].stop

\* The GUI thread handles the finished event of a worker that was asked to
\* stop.
HandlesFinishedOfStopped ==
    /\ events # <<>>
    /\ events' = Tail(events)
    /\ Head(events).sig = "finished"
    /\ workers[Head(events).src].stop

\* C25: handling the finished event of a worker that was asked to stop takes
\* nothing from the pending queue and goes on to an admission pass; and under
\* fair scheduling a stop request made while an entry is pending is followed
\* by the start of a new worker, with no user call needed.
C25_PendingSurviveStopAll ==
    /\ [][HandlesFinishedOfStopped =>
            queue' = queue /\ pc'.gui = "check"]_vars
    /\ \A n \in 0..MixRuns :
          (StopWhilePending /\ Len(workers) = n) ~> (Len(workers) > n)

\* With concurrency 1, the first worker was asked to stop, ended stopped and
\* is retired, and the worker of another job, never asked to stop, is active.
C25_Witness ==
    /\ concurrent = 1
    /\ Len(workers) = 2
    /\ workers[1].stop
    /\ workers[1].outcome \in {"stopped", "aborted"}
    /\ ~Live(1)
    /\ workers[2].job # workers[1].job
    /\ ~workers[2].stop
    /\ 2 \in Range(active_workers)
====
